---- MODULE Spec2Model ----
(***************************************************************************)
(* A model of the polyglot code graph engine (polyglot_graph.py):         *)
(* PolyglotGraphBuilder walks a source tree, extracts named definitions   *)
(* per file into a directed graph, and then links files to definitions by *)
(* substring search (build_cross_reference).                               *)
(*                                                                         *)
(* Python strings are modelled as sequences of characters.  A character   *)
(* is a one-character TLA+ string; a non-ASCII character is written by    *)
(* its code point ("U+00EA" is the letter e with circumflex), since the   *)
(* module text is ASCII.                                                  *)
(***************************************************************************)
EXTENDS Integers, Sequences, FiniteSets, Bags, TLC

(***************************************************************************)
(* Bounds of the model.                                                    *)
(***************************************************************************)
\* Number of files of the catalogue that make up one source tree.
MaxFiles == 2
\* Number of files of a tree whose reading, parsing or extraction fails.
MaxFaults == 1
\* Number of files deleted by the environment while the program runs.
MaxDeletes == 1
\* Number of times build() runs.
MaxRuns == 2

(***************************************************************************)
(* Strings.                                                                *)
(***************************************************************************)
Range(s) == {s[i] : i \in 1..Len(s)}

\* str.startswith
StartsWith(s, p) == Len(p) <= Len(s) /\ \A j \in 1..Len(p) : s[j] = p[j]

\* str.endswith
EndsWith(s, p) == Len(p) <= Len(s) /\ SubSeq(s, Len(s) - Len(p) + 1, Len(s)) = p

\* The Python operator "sub in s" on strings: literal substring containment.
Contains(s, sub) ==
  \E i \in 0..(Len(s) - Len(sub)) : \A j \in 1..Len(sub) : s[i + j] = sub[j]

\* s.replace(c, "") for every character c of cs.
RemoveChars(s, cs) == SelectSeq(s, LAMBDA c : c \notin cs)

Whitespace == {" ", "\n", "\t"}

RECURSIVE LStrip(_)
LStrip(s) == IF s # <<>> /\ Head(s) \in Whitespace THEN LStrip(Tail(s)) ELSE s

RECURSIVE RStrip(_)
RStrip(s) ==
  IF s # <<>> /\ s[Len(s)] \in Whitespace THEN RStrip(SubSeq(s, 1, Len(s) - 1)) ELSE s

\* str.strip()
Strip(s) == RStrip(LStrip(s))

\* The index of the last occurrence of character c in s, 0 when there is none
\* (str.rfind, one-based).
LastIndexOf(s, c) ==
  LET hits == {i \in 1..Len(s) : s[i] = c}
  IN IF hits = {} THEN 0 ELSE CHOOSE i \in hits : \A j \in hits : j <= i

\* "sep".join(parts)
RECURSIVE Join(_, _)
Join(parts, sep) ==
  IF parts = <<>> THEN <<>>
  ELSE IF Len(parts) = 1 THEN parts[1]
  ELSE parts[1] \o sep \o Join(Tail(parts), sep)

\* name.split(".")[-1]: what follows the last dot (the whole name without one).
LeafName(name) == SubSeq(name, LastIndexOf(name, ".") + 1, Len(name))

\* os.path.basename
Basename(p) == SubSeq(p, LastIndexOf(p, "/") + 1, Len(p))

\* The extension os.path.splitext gives for a file name without directory:
\* from the last dot on, unless only dots come before it.
SplitExt(filename) ==
  LET d == LastIndexOf(filename, ".")
  IN IF d > 0 /\ \E i \in 1..(d - 1) : filename[i] # "."
     THEN SubSeq(filename, d, Len(filename))
     ELSE <<>>

\* os.path.join(a, b) for a relative b.
PathJoin(a, b) == IF a = <<>> THEN b ELSE IF EndsWith(a, <<"/">>) THEN a \o b ELSE a \o <<"/">> \o b

(***************************************************************************)
(* Character classes.                                                      *)
(***************************************************************************)
AsciiWord == Range(<<"a","b","c","d","e","f","g","h","i","j","k","l","m","n","o","p","q","r","s","t","u","v","w","x","y","z","A","B","C","D","E","F","G","H","I","J","K","L","M","N","O","P","Q","R","S","T","U","V","W","X","Y","Z","0","1","2","3","4","5","6","7","8","9","_">>)

\* Non-ASCII letters of the model.  The pattern of is_valid_identifier is a
\* str pattern, so \w matches them (Unicode matching is Python 3's default).
UnicodeWord == {"U+00EA"}

\* re: \w
WordChars == AsciiWord \cup UnicodeWord
IsWordChar(c) == c \in WordChars

\* The character set [A-Za-z0-9_.:-].
AsciiNameChars == AsciiWord \cup {".", ":", "-"}

(***************************************************************************)
(* PolyglotGraphBuilder: pure helpers.                                     *)
(***************************************************************************)
\* self.repo_path
RepoPath == <<".","/","r","e","p","o">>

\* os.path.relpath(file_path, self.repo_path) for a path under repo_path.
RelPath(file_path) == SubSeq(file_path, Len(RepoPath) + 2, Len(file_path))

NoConfig == "none"

\* self.parsers as __init__ first writes it: '.yml' is an alias record.
ParsersDeclared ==
  (<<".","p","y">> :> [alias |-> <<>>, lang |-> "python"]) @@
  (<<".","y","a","m","l">> :> [alias |-> <<>>, lang |-> "yaml"]) @@
  (<<".","y","m","l">> :> [alias |-> <<".","y","a","m","l">>, lang |-> NoConfig]) @@
  (<<"D","o","c","k","e","r","f","i","l","e">> :> [alias |-> <<>>, lang |-> "dockerfile"]) @@
  (<<".","t","f">> :> [alias |-> <<>>, lang |-> "hcl"])

\* self.parsers after the alias loop of __init__.
Parsers ==
  [k \in DOMAIN ParsersDeclared |->
     IF ParsersDeclared[k].alias # <<>>
     THEN ParsersDeclared[ParsersDeclared[k].alias]
     ELSE ParsersDeclared[k]]

\* self.parsers.get(key)
ParsersGet(key) == IF key \in DOMAIN Parsers THEN Parsers[key].lang ELSE NoConfig

\* A lookup that falls back to the Python grammar.
ConfigWithDefault(file_path) ==
  LET found == ParsersGet(SplitExt(Basename(file_path)))
  IN IF found = NoConfig THEN "python" ELSE found

\* The grammar parse_file picks for a file path.
ConfigOf(file_path) ==
  LET filename == Basename(file_path)
  IN IF filename = <<"D","o","c","k","e","r","f","i","l","e">> THEN ParsersGet(<<"D","o","c","k","e","r","f","i","l","e">>)
     ELSE ParsersGet(SplitExt(filename))

QuoteChars == {"\"", "'"}

\* A filter that only rejects the empty name.
NonEmptyName(name) == name # <<>>

\* is_valid_identifier: non-empty, and no character outside \w, "-", "." and ":".
is_valid_identifier(name) ==
  /\ name # <<>>
  /\ \A i \in 1..Len(name) : IsWordChar(name[i]) \/ name[i] \in {"-", ".", ":"}

\* get_node_id: "<relative path>::<name without quotes>".
get_node_id(file_path, name) ==
  RelPath(file_path) \o <<":", ":">> \o RemoveChars(name, QuoteChars)

\* get_yaml_full_path: the keys of the enclosing mapping pairs, outermost
\* first, then the captured text, joined by dots.
get_yaml_full_path(capture) == Join(capture.parents \o <<capture.text>>, <<".">>)

\* Step 1 of the capture loop: the dotted path of a YAML key, the captured
\* text in any other format.
RawNameOf(ext, capture) ==
  IF ext \in {<<".","y","a","m","l">>, <<".","y","m","l">>} THEN get_yaml_full_path(capture) ELSE capture.text

\* Step 2 of the capture loop: quotes removed, then outer whitespace stripped.
CleanName(raw) == Strip(RemoveChars(raw, QuoteChars))

\* The directory test of build(): the walk skips a directory whose path
\* contains one of these substrings.
IgnoredRoot(root) ==
  \/ Contains(root, <<".","g","i","t">>)
  \/ Contains(root, <<"v","e","n","v">>)
  \/ Contains(root, <<"_","_","p","y","c","a","c","h","e","_","_">>)

(***************************************************************************)
(* The source trees.  A tree is a set of files of this catalogue.  A file  *)
(* has a directory (relative to the root, empty for the root itself), a   *)
(* name, its text, and the captures the "defs" query of its grammar       *)
(* yields on that text (label, captured text and, for a YAML key, the     *)
(* keys of the enclosing mapping pairs, outermost first).  The parsers    *)
(* are outside the program; their captures are input here.                *)
(***************************************************************************)
Cap(label, text, parents) == [label |-> label, text |-> text, parents |-> parents]

\* The fixture of graph_builder.py.
MathLibPy ==
  [dir |-> <<>>, name |-> <<"m","a","t","h","_","l","i","b",".","p","y">>,
   content |-> <<"d","e","f"," ","a","d","d","(","a",","," ","b",")",":"," ","r","e","t","u","r","n"," ","a"," ","+"," ","b","\n","c","l","a","s","s"," ","C","a","l","c","u","l","a","t","o","r",":","\n"," "," "," "," ","d","e","f"," ","s","u","b","(","s","e","l","f",","," ","a",","," ","b",")",":"," ","r","e","t","u","r","n"," ","a"," ","-"," ","b">>,
   captures |-> <<Cap("def.func", <<"d","e","f"," ","a","d","d","(","a",","," ","b",")",":"," ","r","e","t","u","r","n"," ","a"," ","+"," ","b">>, <<>>),
                  Cap("name", <<"a","d","d">>, <<>>),
                  Cap("def.class", <<"c","l","a","s","s"," ","C","a","l","c","u","l","a","t","o","r",":","\n"," "," "," "," ","d","e","f"," ","s","u","b","(","s","e","l","f",","," ","a",","," ","b",")",":"," ","r","e","t","u","r","n"," ","a"," ","-"," ","b">>, <<>>),
                  Cap("name", <<"C","a","l","c","u","l","a","t","o","r">>, <<>>),
                  Cap("def.func", <<"d","e","f"," ","s","u","b","(","s","e","l","f",","," ","a",","," ","b",")",":"," ","r","e","t","u","r","n"," ","a"," ","-"," ","b">>, <<>>),
                  Cap("name", <<"s","u","b">>, <<>>)>>]

MainPy ==
  [dir |-> <<>>, name |-> <<"m","a","i","n",".","p","y">>,
   content |-> <<"i","m","p","o","r","t"," ","m","a","t","h","_","l","i","b","\n","d","e","f"," ","m","a","i","n","(",")",":","\n"," "," "," "," ","r","e","s"," ","="," ","a","d","d","(","1",","," ","2",")","\n"," "," "," "," ","c","a","l","c"," ","="," ","C","a","l","c","u","l","a","t","o","r","(",")","\n"," "," "," "," ","r","e","s","2"," ","="," ","c","a","l","c",".","s","u","b","(","3",","," ","1",")">>,
   captures |-> <<Cap("def.func", <<"d","e","f"," ","m","a","i","n","(",")",":","\n"," "," "," "," ","r","e","s"," ","="," ","a","d","d","(","1",","," ","2",")","\n"," "," "," "," ","c","a","l","c"," ","="," ","C","a","l","c","u","l","a","t","o","r","(",")","\n"," "," "," "," ","r","e","s","2"," ","="," ","c","a","l","c",".","s","u","b","(","3",","," ","1",")">>, <<>>),
                  Cap("name", <<"m","a","i","n">>, <<>>)>>]

\* A configuration file with a nested key, a quoted key with inner
\* whitespace and a quoted key with outer whitespace.
SettingsYaml ==
  [dir |-> <<"c","o","n","f","i","g">>, name |-> <<"s","e","t","t","i","n","g","s",".","y","a","m","l">>,
   content |-> <<"d","a","t","a","b","a","s","e",":","\n"," "," ","d","b","_","h","o","s","t",":"," ","l","o","c","a","l","h","o","s","t","\n"," "," ","\"","d","b"," ","p","o","r","t","\"",":"," ","5","4","3","2","\n","\""," ","t","i","e","r"," ","\"",":"," ","p","r","o","d","\n">>,
   captures |-> <<Cap("name", <<"d","a","t","a","b","a","s","e">>, <<>>),
                  Cap("name", <<"d","b","_","h","o","s","t">>, <<<<"d","a","t","a","b","a","s","e">>>>),
                  Cap("name", <<"\"","d","b"," ","p","o","r","t","\"">>, <<<<"d","a","t","a","b","a","s","e">>>>),
                  Cap("def.key", <<"\""," ","t","i","e","r"," ","\"",":"," ","p","r","o","d">>, <<>>),
                  Cap("name", <<"\""," ","t","i","e","r"," ","\"">>, <<>>)>>]

\* After main.py of the sample repository: it names configuration keys in
\* string literals.  Two of its definitions have the same name.
AppPy ==
  [dir |-> <<"s","r","c">>, name |-> <<"a","p","p",".","p","y">>,
   content |-> <<"c","l","a","s","s"," ","A","p","p","S","e","r","v","i","c","e",":","\n"," "," "," "," ","d","e","f"," ","r","u","n","(","s","e","l","f",")",":","\n"," "," "," "," "," "," "," "," ","s","e","l","f",".","d","b","_","h","o","s","t"," ","="," ","\"","d","b","_","h","o","s","t","\"","\n","d","e","f"," ","r","u","n","(",")",":"," ","p","a","s","s","\n","A","p","p","S","e","r","v","i","c","e","(",")",".","r","u","n","(",")">>,
   captures |-> <<Cap("name", <<"A","p","p","S","e","r","v","i","c","e">>, <<>>),
                  Cap("name", <<"r","u","n">>, <<>>),
                  Cap("name", <<"r","u","n">>, <<>>)>>]

\* A file whose relative path starts with the relative path of main.py.  It
\* has a nested key, and one of its keys is a non-ASCII word.
MainPyYml ==
  [dir |-> <<>>, name |-> <<"m","a","i","n",".","p","y",".","y","m","l">>,
   content |-> <<"c","a","l","c",":","\n"," "," ","m","a","i","n",":"," ","1","\n","t","U+00EA","n",":"," ","2","\n">>,
   captures |-> <<Cap("name", <<"c","a","l","c">>, <<>>),
                  Cap("name", <<"m","a","i","n">>, <<<<"c","a","l","c">>>>),
                  Cap("name", <<"t","U+00EA","n">>, <<>>)>>]

\* A workflow file: its directory is no version-control metadata.
CiYml ==
  [dir |-> <<".","g","i","t","h","u","b">>, name |-> <<"c","i",".","y","m","l">>,
   content |-> <<"j","o","b","s",":"," ","b","u","i","l","d","\n">>,
   captures |-> <<Cap("name", <<"j","o","b","s">>, <<>>)>>]

\* A file inside the version-control metadata.
HookPy ==
  [dir |-> <<".","g","i","t">>, name |-> <<"h","o","o","k",".","p","y">>,
   content |-> <<"d","e","f"," ","m","a","i","n","(",")",":"," ","p","a","s","s">>,
   captures |-> <<Cap("def.func", <<"d","e","f"," ","m","a","i","n","(",")",":"," ","p","a","s","s">>, <<>>),
                  Cap("name", <<"m","a","i","n">>, <<>>)>>]

\* A file no grammar is registered for.
ReadmeMd ==
  [dir |-> <<>>, name |-> <<"R","E","A","D","M","E",".","m","d">>,
   content |-> <<"C","a","l","c","u","l","a","t","o","r"," ","r","e","a","d","s"," ","d","b","_","h","o","s","t">>,
   captures |-> <<>>]

DockerfileF ==
  [dir |-> <<>>, name |-> <<"D","o","c","k","e","r","f","i","l","e">>,
   content |-> <<"F","R","O","M"," ","p","y","t","h","o","n",":","3",".","9","\n">>,
   captures |-> <<Cap("def.image", <<"F","R","O","M"," ","p","y","t","h","o","n",":","3",".","9">>, <<>>),
                  Cap("name", <<"p","y","t","h","o","n",":","3",".","9">>, <<>>)>>]

Catalog ==
  <<MathLibPy, MainPy, SettingsYaml, AppPy, MainPyYml, CiYml, HookPy, ReadmeMd,
    DockerfileF>>

Files == 1..Len(Catalog)

\* The directory os.walk reports for a file (its "root").
Root(f) == IF Catalog[f].dir = <<>> THEN RepoPath ELSE PathJoin(RepoPath, Catalog[f].dir)

\* os.path.join(root, file)
FullPaths == [f \in Files |-> PathJoin(Root(f), Catalog[f].name)]
FullPath(f) == FullPaths[f]

\* The faults a file can have: none; its bytes cannot be read as UTF-8;
\* the parser or the query raises; name extraction raises at the second
\* capture labelled "name", before that capture's node is added and after
\* the first one's was (at the first such capture this leaves what a
\* raising parser leaves, the "parse" fault; at a later one it leaves more
\* of the same).  A file the program never opens (no grammar, or a
\* directory the walk skips) has none.
Faults(f) ==
  LET names == {j \in 1..Len(Catalog[f].captures) : Catalog[f].captures[j].label = "name"}
  IN IF ConfigOf(FullPath(f)) = NoConfig \/ IgnoredRoot(Root(f))
     THEN {[kind |-> "none", at |-> 0]}
     ELSE {[kind |-> k, at |-> 0] : k \in {"none", "read", "parse"}}
          \cup {[kind |-> "extract", at |-> i] :
                  i \in {j \in names : Cardinality({k \in names : k < j}) = 1}}

NoFault == [kind |-> "none", at |-> 0]

\* The captures of file f labelled "name".
NameCaptures(f) ==
  {i \in 1..Len(Catalog[f].captures) : Catalog[f].captures[i].label = "name"}

\* The cleaned name a capture of file f stands for.
CapturedNames ==
  [f \in Files |->
     [i \in NameCaptures(f) |->
        CleanName(RawNameOf(SplitExt(Catalog[f].name), Catalog[f].captures[i]))]]
CapturedName(f, i) == CapturedNames[f][i]

\* The names the captures of the catalogue give, with their leaves, and
\* those of them that occur in the text of each file ("name in content",
\* worked out once).
KnownNames ==
  UNION {UNION {{CapturedNames[f][i], LeafName(CapturedNames[f][i])} : i \in NameCaptures(f)} :
           f \in Files}
NamesInText == [f \in Files |-> {n \in KnownNames : Contains(Catalog[f].content, n)}]

(***************************************************************************)
(* State.                                                                  *)
(***************************************************************************)
VARIABLES
  tree,        \* the files of the source tree
  fault,       \* the fault of each file of the tree
  deleted,     \* the files the environment has deleted
  phase,       \* build(): "scanning", "resolving" or "done"
  run,         \* the number of the current run of build()
  visited,     \* the files the walk of this run has passed
  graph,       \* self.graph: nodes, their insertion order, edges
  definitions, \* build_cross_reference: name -> list of definition nodes
  fileNodes,   \* build_cross_reference: file_nodes
  ri,          \* build_cross_reference: position in file_nodes
  atResolve,   \* the graph as the current resolution pass found it
  skipped,     \* file nodes whose text the current pass could not read
  prevGraph    \* the graph at the end of the previous run

vars ==
  <<tree, fault, deleted, phase, run, visited, graph, definitions, fileNodes, ri,
    atResolve, skipped, prevGraph>>

(***************************************************************************)
(* The graph: networkx.DiGraph.                                            *)
(***************************************************************************)
AttrKeys == {"type", "lang", "name", "path", "file"}

\* An attribute a node does not have.
Absent ==
  [type |-> "absent", lang |-> <<"absent">>, name |-> <<"absent">>,
   path |-> <<"absent">>, file |-> <<"absent">>]

EmptyGraph == [nodes |-> <<>>, order |-> <<>>, edges |-> EmptyBag]

\* DiGraph.add_node(id, **attrs): a new node is appended; an existing node
\* keeps its place and its other attributes.
AddNode(g, id, attrs) ==
  LET old == IF id \in DOMAIN g.nodes THEN g.nodes[id] ELSE Absent
      new == [k \in AttrKeys |-> IF k \in DOMAIN attrs THEN attrs[k] ELSE old[k]]
  IN [nodes |-> (id :> new) @@ g.nodes,
      order |-> IF id \in DOMAIN g.nodes THEN g.order ELSE Append(g.order, id),
      edges |-> g.edges]

\* The same call on a graph that keeps parallel edges (a MultiDiGraph).
AddEdgeParallel(g, u, v, rel) ==
  [g EXCEPT !.edges = @ (+) SetToBag({<<u, v, rel>>})]

\* DiGraph.add_edge(u, v, relation=rel): one edge per ordered pair; adding it
\* again overwrites its relation.
AddEdge(g, u, v, rel) ==
  LET others == {e \in BagToSet(g.edges) : ~(e[1] = u /\ e[2] = v)}
  IN [g EXCEPT !.edges = [e \in others |-> g.edges[e]] (+) SetToBag({<<u, v, rel>>})]

NodeIds(g) == DOMAIN g.nodes
FileNodeIds(g) == {n \in NodeIds(g) : g.nodes[n].type = "file"}
DefNodeIds(g) == {n \in NodeIds(g) : g.nodes[n].type = "definition"}
EdgeSet(g) == BagToSet(g.edges)
\* The number of edges u -> v with relation rel.
EdgeCount(g, u, v, rel) == CopiesIn(<<u, v, rel>>, g.edges)

(***************************************************************************)
(* The file system as the program sees it.                                 *)
(***************************************************************************)
FilesAt(path) == {f \in tree : FullPath(f) = path}

\* open(path, encoding="utf-8").read() succeeds: the file is there and its
\* bytes decode.
CanRead(path) == \E f \in FilesAt(path) : f \notin deleted /\ fault[f].kind # "read"

\* What the read returns.
ReadText(path) == Catalog[CHOOSE f \in FilesAt(path) : TRUE].content

(***************************************************************************)
(* parse_file.                                                             *)
(***************************************************************************)
\* The loop over capture_list from capture i on.  failAt is the capture at
\* which name extraction raises (0: none); the except clause ends the loop
\* there and nothing is undone.
RECURSIVE CaptureLoop(_, _, _, _, _, _)
CaptureLoop(g, file_path, ext, caps, i, failAt) ==
  IF i > Len(caps) \/ i = failAt THEN g
  ELSE IF caps[i].label # "name" THEN CaptureLoop(g, file_path, ext, caps, i + 1, failAt)
  ELSE
    LET name == CleanName(RawNameOf(ext, caps[i]))
        node_id == get_node_id(file_path, name)
        rel_path == RelPath(file_path)
    IN IF ~is_valid_identifier(name)
       THEN CaptureLoop(g, file_path, ext, caps, i + 1, failAt)
       ELSE CaptureLoop(
              AddEdge(AddNode(g, node_id, [type |-> "definition", name |-> name]),
                      rel_path, node_id, "contains"),
              file_path, ext, caps, i + 1, failAt)

\* parse_file(file_path) applied to graph g.
parse_file(g, file_path) ==
  LET ext == SplitExt(Basename(file_path))
      rel_path == RelPath(file_path)
      g1 == AddNode(g, rel_path,
                    [type |-> "file", lang |-> IF ext # <<>> THEN ext ELSE <<"d","o","c","k","e","r">>])
      f == CHOOSE x \in FilesAt(file_path) : TRUE
  IN IF ConfigOf(file_path) = NoConfig THEN g
     ELSE IF ~CanRead(file_path) \/ fault[f].kind = "parse" THEN g1
     ELSE CaptureLoop(g1, file_path, ext, Catalog[f].captures, 1,
                      IF fault[f].kind = "extract" THEN fault[f].at ELSE 0)

(***************************************************************************)
(* build_cross_reference.                                                  *)
(***************************************************************************)
\* definitions[key].append(node), the list created when the key is new.
IndexAppend(defs, key, node) ==
  (key :> Append(IF key \in DOMAIN defs THEN defs[key] ELSE <<>>, node)) @@ defs

\* Part 1, the index, over the nodes in insertion order from position i on.
RECURSIVE BuildIndex(_, _, _)
BuildIndex(g, i, defs) ==
  IF i > Len(g.order) THEN defs
  ELSE
    LET node == g.order[i]
        attr == g.nodes[node]
        withName == IndexAppend(defs, attr.name, node)
        withLeaf == IF "." \in Range(attr.name)
                    THEN IndexAppend(withName, LeafName(attr.name), node)
                    ELSE withName
    IN IF attr.type = "definition" /\ attr.name # Absent.name /\ attr.name # <<>>
       THEN BuildIndex(g, i + 1, withLeaf)
       ELSE BuildIndex(g, i + 1, defs)

\* file_nodes: the file nodes in insertion order.
FileNodeList(g) == SelectSeq(g.order, LAMBDA n : g.nodes[n].type = "file")

\* No guard at all.
NeverSelf(target_node, file_node) == FALSE

\* The guard of the RepoGraphBuilder variant: the target is the file itself.
SameNode(target_node, file_node) == target_node = file_node

\* The guard "target_node.startswith(file_node)".
IsSelfReference(target_node, file_node) == StartsWith(target_node, file_node)

\* "def_name in content": read from NamesInText when content is the text of
\* a file of the catalogue and def_name one of the known names.
ContainsName(content, def_name) ==
  LET fs == {f \in Files : Catalog[f].content = content}
  IN IF fs # {} /\ def_name \in KnownNames
     THEN def_name \in NamesInText[CHOOSE f \in fs : TRUE]
     ELSE Contains(content, def_name)

\* The rule without its length floor.
AnyLengthHit(def_name, content) == ContainsName(content, def_name)

\* The rule "len(def_name) > 3 and def_name in content".
NameHit(def_name, content) == Len(def_name) > 3 /\ ContainsName(content, def_name)

\* The add_edge calls of part 2 for one file: one per (name, target) that
\* passes the rule and the guard.
Hits(defs, file_node, content) ==
  {h \in UNION {{<<name, defs[name][k]>> : k \in 1..Len(defs[name])} : name \in DOMAIN defs} :
     NameHit(h[1], content) /\ ~IsSelfReference(h[2], file_node)}

RECURSIVE AddReferences(_, _, _)
AddReferences(g, file_node, hits) ==
  IF hits = {} THEN g
  ELSE LET h == CHOOSE x \in hits : TRUE
       IN AddReferences(AddEdge(g, file_node, h[2], "references"), file_node, hits \ {h})

\* The loop body of part 2 for one file node: its text is read and the
\* edges are added, or the read fails and the bare except skips the file.
ResolveOne(g, file_node) ==
  LET full_path == PathJoin(RepoPath, file_node)
  IN IF CanRead(full_path)
     THEN AddReferences(g, file_node, Hits(definitions, file_node, ReadText(full_path)))
     ELSE g

(***************************************************************************)
(* build(): the walk, then the resolution pass.                            *)
(***************************************************************************)
Init ==
  /\ tree \in {t \in SUBSET Files : Cardinality(t) <= MaxFiles}
  /\ fault \in {ft \in [tree -> UNION {Faults(f) : f \in Files}] :
                  /\ \A f \in tree : ft[f] \in Faults(f)
                  /\ Cardinality({f \in tree : ft[f] # NoFault}) <= MaxFaults}
  /\ deleted = {}
  /\ phase = "scanning"
  /\ run = 1
  /\ visited = {}
  /\ graph = EmptyGraph
  /\ definitions = <<>>
  /\ fileNodes = <<>>
  /\ ri = 1
  /\ atResolve = EmptyGraph
  /\ skipped = {}
  /\ prevGraph = EmptyGraph

\* The file the walk reaches next.  os.walk lists a tree in directory order,
\* which is the same on every run over an unchanged tree; the order of the
\* catalogue stands for it.
NextInWalk(f) == f \in tree \ visited /\ \A x \in tree \ visited : f <= x

\* The loops of build() and of build_cross_reference: the walk has a next
\* file or is over, the pass has a next file node or is over.
WalkStep(f) == phase = "scanning" /\ NextInWalk(f)
WalkOver == phase = "scanning" /\ visited = tree
PassStep == phase = "resolving" /\ ri <= Len(fileNodes)
PassOver == phase = "resolving" /\ ri > Len(fileNodes)

\* One file of the walk: skipped when its directory matches the ignore
\* test, handed to parse_file otherwise.
ScanFile(f) ==
  /\ WalkStep(f)
  /\ f \notin deleted
  /\ visited' = visited \cup {f}
  /\ graph' = IF IgnoredRoot(Root(f)) THEN graph ELSE parse_file(graph, FullPath(f))
  /\ UNCHANGED <<tree, fault, deleted, phase, run, definitions, fileNodes, ri,
                 atResolve, skipped, prevGraph>>

\* A file deleted during an earlier run is not in the listing of the walk.
WalkMisses(f) ==
  /\ WalkStep(f)
  /\ f \in deleted
  /\ visited' = visited \cup {f}
  /\ UNCHANGED <<tree, fault, deleted, phase, run, graph, definitions, fileNodes, ri,
                 atResolve, skipped, prevGraph>>

\* The walk is over: build_cross_reference builds its index and lists the
\* file nodes.
StartResolve ==
  /\ WalkOver
  /\ phase' = "resolving"
  /\ definitions' = BuildIndex(graph, 1, <<>>)
  /\ fileNodes' = FileNodeList(graph)
  /\ ri' = 1
  /\ atResolve' = graph
  /\ skipped' = {}
  /\ UNCHANGED <<tree, fault, deleted, run, visited, graph, prevGraph>>

\* A pass that gives up at the first file it cannot read.
AbortPass(i) == Len(fileNodes) + 1

\* "except: pass": after a failed read the loop goes on with the next file.
AfterReadFailure(i) == i + 1

\* One iteration of "for file_node in file_nodes".
ResolveFile ==
  /\ PassStep
  /\ graph' = ResolveOne(graph, fileNodes[ri])
  /\ IF CanRead(PathJoin(RepoPath, fileNodes[ri]))
     THEN skipped' = skipped /\ ri' = ri + 1
     ELSE skipped' = skipped \cup {fileNodes[ri]} /\ ri' = AfterReadFailure(ri)
  /\ UNCHANGED <<tree, fault, deleted, phase, run, visited, definitions, fileNodes,
                 atResolve, prevGraph>>

\* build() returns.
FinishBuild ==
  /\ PassOver
  /\ phase' = "done"
  /\ UNCHANGED <<tree, fault, deleted, run, visited, graph, definitions, fileNodes, ri,
                 atResolve, skipped, prevGraph>>

\* build() runs again: on a new builder (a new graph) or on the same one.
\* The local variables of the finished build_cross_reference are gone.
Rebuild(fresh) ==
  /\ phase = "done"
  /\ run < MaxRuns
  /\ run' = run + 1
  /\ prevGraph' = graph
  /\ graph' = IF fresh THEN EmptyGraph ELSE graph
  /\ phase' = "scanning"
  /\ visited' = {}
  /\ definitions' = <<>>
  /\ fileNodes' = <<>>
  /\ ri' = 1
  /\ atResolve' = EmptyGraph
  /\ skipped' = {}
  /\ UNCHANGED <<tree, fault, deleted>>

\* The environment deletes a file of the tree between the walk and the
\* moment the resolution pass reads that file again.
DeleteFile(f) ==
  /\ phase = "resolving"
  /\ f \in tree \ deleted
  /\ \E k \in ri..Len(fileNodes) : PathJoin(RepoPath, fileNodes[k]) = FullPath(f)
  /\ Cardinality(deleted) < MaxDeletes
  /\ deleted' = deleted \cup {f}
  /\ UNCHANGED <<tree, fault, phase, run, visited, graph, definitions, fileNodes, ri,
                 atResolve, skipped, prevGraph>>

Next ==
  \/ \E f \in Files : ScanFile(f)
  \/ \E f \in Files : WalkMisses(f)
  \/ StartResolve
  \/ ResolveFile
  \/ FinishBuild
  \/ \E fresh \in BOOLEAN : Rebuild(fresh)
  \/ \E f \in Files : DeleteFile(f)

Spec == Init /\ [][Next]_vars

(***************************************************************************)
(* Vocabulary of the properties.                                           *)
(***************************************************************************)
\* The part of a definition node's id before its first "::".
OwnerPath(id) ==
  LET seps == {i \in 1..(Len(id) - 1) : id[i] = ":" /\ id[i + 1] = ":"}
      first == CHOOSE i \in seps : \A j \in seps : i <= j
  IN SubSeq(id, 1, first - 1)

\* The relative path of a file of the tree.
RelPaths == [f \in Files |-> RelPath(FullPath(f))]
RelOf(f) == RelPaths[f]

\* The text of the file behind a file node.
TextOfNode(file_node) == ReadText(PathJoin(RepoPath, file_node))

\* The captures of file f that stand for definition node D.
CaptureIds ==
  [f \in Files |->
     [i \in NameCaptures(f) |-> get_node_id(FullPath(f), CapturedName(f, i))]]
CapturesOf(f, D) == {i \in NameCaptures(f) : CaptureIds[f][i] = D}

References(F, D) == EdgeCount(graph, F, D, "references") >= 1

(***************************************************************************)
(* Properties.                                                             *)
(***************************************************************************)
\* C1: no definition node has an incoming "references" edge from the file
\* node that owns it (the file whose relative path precedes "::" in the
\* definition's id), in any state of the build, whatever the file's text.
SelfReferenceGuard ==
  \A e \in EdgeSet(graph) :
    (e[3] = "references" /\ e[2] \in DefNodeIds(graph)) => e[1] # OwnerPath(e[2])

\* The resolver has read a file whose text contains the name (of more than
\* three characters) of one of its own definitions, and another file
\* references that definition.
SelfReferenceGuardWitness ==
  /\ phase = "done"
  /\ \E D \in DefNodeIds(graph) :
       /\ OwnerPath(D) \in FileNodeIds(graph) \ skipped
       /\ NameHit(graph.nodes[D].name, TextOfNode(OwnerPath(D)))
       /\ \E F \in FileNodeIds(graph) : References(F, D)

\* C2: after build() every definition node has exactly one incoming
\* "contains" edge, and it comes from the file node of the file the
\* definition was extracted from; also when several captures of the file
\* clean to the same name, and after the resolver has added its edges.
ContainsEdgeInvariant ==
  phase = "done" =>
    \A D \in DefNodeIds(graph) :
      LET incoming == {e \in EdgeSet(graph) : e[2] = D /\ e[3] = "contains"}
      IN /\ Cardinality(incoming) = 1
         /\ \A e \in incoming :
              /\ graph.edges[e] = 1
              /\ e[1] \in FileNodeIds(graph)
              /\ \E f \in tree : e[1] = RelOf(f) /\ CapturesOf(f, D) # {}

\* A build is done in which two captures of one file gave the same
\* definition node and the resolver added a references edge.
ContainsEdgeInvariantWitness ==
  /\ phase = "done"
  /\ \E D \in DefNodeIds(graph) : \E f \in tree : Cardinality(CapturesOf(f, D)) >= 2
  /\ \E e \in EdgeSet(graph) : e[3] = "references"

\* The names the claims call registered: the exact file name Dockerfile, or
\* one of the extensions .py, .yaml, .yml, .tf.
RegisteredName(filename) ==
  \/ filename = <<"D","o","c","k","e","r","f","i","l","e">>
  \/ SplitExt(filename) \in {<<".","p","y">>, <<".","y","a","m","l">>, <<".","y","m","l">>, <<".","t","f">>}

\* The directory names of a relative directory path.
Components(p) ==
  {SubSeq(p, ab[1], ab[2]) : ab \in
     {x \in (1..Len(p)) \X (1..Len(p)) :
        /\ x[1] <= x[2]
        /\ (x[1] = 1 \/ p[x[1] - 1] = "/")
        /\ (x[2] = Len(p) \/ p[x[2] + 1] = "/")
        /\ \A k \in x[1]..x[2] : p[k] # "/"}}

\* The file lies inside version-control metadata, a virtual environment or
\* a bytecode cache.
InIgnoredDir(f) ==
  Components(Catalog[f].dir) \cap {<<".","g","i","t">>, <<"v","e","n","v">>, <<"_","_","p","y","c","a","c","h","e","_","_">>} # {}

DefName(D) == graph.nodes[D].name

ValidNameChar(c) == IsWordChar(c) \/ c \in {"-", ".", ":"}

\* C3: for a definition D and another file F that the resolver read and
\* whose text contains D's name verbatim, the edge F -> D exists exactly
\* when the name has at least 4 characters.
NameLengthFloor ==
  phase = "done" =>
    \A D \in DefNodeIds(graph) : \A F \in FileNodeIds(graph) \ skipped :
      (F # OwnerPath(D) /\ Contains(TextOfNode(F), DefName(D)))
        => (References(F, D) <=> Len(DefName(D)) >= 4)

\* C4 as stated: every character of every definition name is in
\* [A-Za-z0-9_.:-], and captured text with any other character yields no
\* definition node.
NameValidityAscii ==
  /\ \A D \in DefNodeIds(graph) : Range(DefName(D)) \subseteq AsciiNameChars
  /\ \A f \in visited : \A i \in NameCaptures(f) :
       ~(Range(Catalog[f].captures[i].text) \subseteq AsciiNameChars)
         => get_node_id(FullPath(f), CapturedName(f, i)) \notin NodeIds(graph)

\* The captures of the catalogue whose cleaned name is empty or has a
\* character that is no word character, "-", "." or ":", each with the id
\* its node would have.
RejectedCaptures ==
  UNION {{[file |-> f, id |-> CaptureIds[f][i]] :
            i \in {j \in NameCaptures(f) :
                     LET name == CapturedName(f, j)
                     IN name = <<>> \/ \E c \in Range(name) : ~ValidNameChar(c)}} :
         f \in Files}

\* C4 as amended: every definition name is non-empty and made of word
\* characters (\w of a str pattern: also non-ASCII letters), "-", "." and
\* ":"; a capture whose cleaned name (quotes removed, outer whitespace
\* stripped) is empty or has any other character yields neither a node nor
\* an edge.
NameValidity ==
  /\ \A D \in DefNodeIds(graph) :
       DefName(D) # <<>> /\ \A c \in Range(DefName(D)) : ValidNameChar(c)
  /\ \A r \in RejectedCaptures :
       r.file \in tree =>
         /\ r.id \notin NodeIds(graph)
         /\ \A e \in EdgeSet(graph) : e[2] # r.id

\* A file was parsed without fault in which one capture was rejected for
\* inner whitespace and one quoted capture gave a node, and a definition
\* with a non-ASCII letter exists.
NameValidityWitness ==
  /\ \E D \in DefNodeIds(graph) : Range(DefName(D)) \cap UnicodeWord # {}
  /\ \E f \in visited : \E i, j \in NameCaptures(f) :
       /\ fault[f] = NoFault
       /\ RelOf(f) \in FileNodeIds(graph)
       /\ " " \in Range(CapturedName(f, i))
       /\ "\"" \in Range(Catalog[f].captures[j].text)
       /\ get_node_id(FullPath(f), CapturedName(f, j)) \in DefNodeIds(graph)

\* C5: the last dot-segment of a dotted definition name is a key of the
\* index for the same node, beside whatever else is under that key, and
\* another file whose text contains the segment gets a references edge to
\* the node.
LeafAliasResolves ==
  /\ phase = "resolving" =>
       \A D \in DefNodeIds(graph) :
         "." \in Range(DefName(D)) =>
           /\ LeafName(DefName(D)) \in DOMAIN definitions
           /\ D \in Range(definitions[LeafName(DefName(D))])
           /\ D \in Range(definitions[DefName(D)])
           /\ \A D2 \in DefNodeIds(graph) :
                DefName(D2) = LeafName(DefName(D))
                  => D2 \in Range(definitions[LeafName(DefName(D))])
  /\ phase = "done" =>
       \A D \in DefNodeIds(graph) : \A F \in FileNodeIds(graph) \ skipped :
         ( /\ "." \in Range(DefName(D))
           /\ Len(LeafName(DefName(D))) > 3
           /\ F # OwnerPath(D)
           /\ Contains(TextOfNode(F), LeafName(DefName(D))) )
           => References(F, D)

\* C6: after build() every file of the tree with a registered name outside
\* the ignored directories has exactly one file node, and no file inside
\* an ignored directory has a node.
FileNodeCoverage ==
  phase = "done" =>
    \A f \in tree \ deleted :
      /\ (RegisteredName(Catalog[f].name) /\ ~InIgnoredDir(f))
           => /\ RelOf(f) \in FileNodeIds(graph)
              /\ Cardinality({k \in 1..Len(graph.order) : graph.order[k] = RelOf(f)}) = 1
      /\ InIgnoredDir(f) => RelOf(f) \notin NodeIds(graph)

\* C7 as stated: after build() a file without registered grammar has a file
\* node, and no contains edge leaves it.
UnsupportedGetsBareFileNode ==
  phase = "done" =>
    \A f \in tree \ deleted :
      ~RegisteredName(Catalog[f].name) =>
        /\ RelOf(f) \in FileNodeIds(graph)
        /\ \A e \in EdgeSet(graph) : e[1] # RelOf(f)

\* C7 as amended: a file without registered grammar is skipped without
\* error and leaves nothing in the graph: no node for it, no definition
\* node of it and no edge from it.
UnsupportedFormatSkipped ==
  \A f \in tree :
    ~RegisteredName(Catalog[f].name) =>
      /\ RelOf(f) \notin NodeIds(graph)
      /\ \A D \in NodeIds(graph) : ~StartsWith(D, RelOf(f) \o <<":", ":">>)
      /\ \A e \in EdgeSet(graph) : e[1] # RelOf(f)

\* build() is done on a tree with a file without registered grammar and a
\* file that got its node.
UnsupportedFormatSkippedWitness ==
  /\ phase = "done"
  /\ \E f \in visited : ~RegisteredName(Catalog[f].name)
  /\ FileNodeIds(graph) # {}

\* C8: once parse_file has returned for a file on which reading, parsing,
\* querying or name extraction fails, the file has its file node, no
\* definition node and no contains edge.
ParseFailureLeavesBareNode ==
  \A f \in visited \ deleted :
    fault[f] # NoFault =>
      /\ RelOf(f) \in FileNodeIds(graph)
      /\ \A D \in DefNodeIds(graph) : OwnerPath(D) # RelOf(f)
      /\ \A e \in EdgeSet(graph) : ~(e[1] = RelOf(f) /\ e[3] = "contains")

\* build() can take a step: one of its loops has a next element or is over
\* (the conditions under which ScanFile, WalkMisses, StartResolve,
\* ResolveFile and FinishBuild are enabled).
BuildCanStep ==
  \/ \E f \in Files : WalkStep(f)
  \/ WalkOver
  \/ PassStep
  \/ PassOver

\* The definition nodes a file yields when nothing fails.
ExpectedDefsOf ==
  [f \in Files |->
     {CaptureIds[f][i] :
        i \in {j \in NameCaptures(f) : is_valid_identifier(CapturedName(f, j))}}]
ExpectedDefs(f) == ExpectedDefsOf[f]

\* The position of a file node in file_nodes.
PositionOf(F) == CHOOSE k \in 1..Len(fileNodes) : fileNodes[k] = F

\* C9: no failure on one file aborts build().  While build() is not done
\* it can take its next step; when it is done the walk has passed every
\* file and the resolver every file node, every file handed to parse_file
\* has its node, every file without fault has all its definitions, every
\* file node the resolver could read has all its references edges, and a
\* file node the resolver could not read has the outgoing edges it had
\* before the pass, the set of nodes being untouched by the pass.
FailureIsolation ==
  /\ phase # "done" => BuildCanStep
  /\ phase = "done" =>
       /\ visited = tree
       /\ ri = Len(fileNodes) + 1
       /\ \A f \in tree \ deleted :
            (ConfigOf(FullPath(f)) # NoConfig /\ ~IgnoredRoot(Root(f))) =>
              /\ RelOf(f) \in FileNodeIds(graph)
              /\ fault[f] = NoFault => ExpectedDefs(f) \subseteq DefNodeIds(graph)
       /\ \A F \in FileNodeIds(graph) \ skipped :
            \A h \in Hits(definitions, F, TextOfNode(F)) : References(F, h[2])
  /\ phase \in {"resolving", "done"} =>
       /\ graph.nodes = atResolve.nodes
       /\ \A F \in skipped :
            \A e \in EdgeSet(graph) \cup EdgeSet(atResolve) :
              e[1] = F => CopiesIn(e, graph.edges) = CopiesIn(e, atResolve.edges)

\* build() is done; the resolver could not read one file node, and a file
\* node after it in file_nodes, whose extraction had failed, was resolved
\* and got a references edge.
FailureIsolationWitness ==
  /\ phase = "done"
  /\ \E F \in skipped : \E f \in tree :
       /\ fault[f] # NoFault
       /\ RelOf(f) \in FileNodeIds(graph) \ skipped
       /\ PositionOf(F) < PositionOf(RelOf(f))
       /\ \E D \in DefNodeIds(graph) : References(RelOf(f), D)

\* C10: a second run of extraction and resolution on an unchanged tree, on
\* a new graph or on the graph of the first run, ends with the nodes and
\* the edges (relation included) of the first run, and there is never more
\* than one references edge for a pair of file and definition.
Idempotence ==
  /\ \A e \in EdgeSet(graph) : e[3] = "references" => CopiesIn(e, graph.edges) = 1
  /\ (phase = "done" /\ run >= 2 /\ deleted = {}) =>
       /\ NodeIds(graph) = NodeIds(prevGraph)
       /\ graph.nodes = prevGraph.nodes
       /\ graph.edges = prevGraph.edges

\* A second run is done on an unchanged tree, with contains and references
\* edges in the graph.
IdempotenceWitness ==
  /\ phase = "done"
  /\ run >= 2
  /\ deleted = {}
  /\ \E e \in EdgeSet(graph) : e[3] = "references"
  /\ \E e \in EdgeSet(graph) : e[3] = "contains"

(***************************************************************************)
(* The single-language variant: RepoGraphBuilder (graph_builder.py).  It   *)
(* uses the same state; definitions is its global_definitions.             *)
(***************************************************************************)
\* What DEF_QUERY_SCM captures under @class.name and @function.name in each
\* file of the catalogue, in the order of the text.
DefCaptures ==
  <<<<Cap("function.name", <<"a","d","d">>, <<>>), Cap("class.name", <<"C","a","l","c","u","l","a","t","o","r">>, <<>>),
      Cap("function.name", <<"s","u","b">>, <<>>)>>,
    <<Cap("function.name", <<"m","a","i","n">>, <<>>)>>,
    <<>>,
    <<Cap("class.name", <<"A","p","p","S","e","r","v","i","c","e">>, <<>>), Cap("function.name", <<"r","u","n">>, <<>>),
      Cap("function.name", <<"r","u","n">>, <<>>)>>,
    <<>>,
    <<>>,
    <<Cap("function.name", <<"m","a","i","n">>, <<>>)>>,
    <<>>,
    <<>>>>

\* found_calls: what CALL_QUERY_SCM captures under @call.name and
\* @call.method in each file of the catalogue.
CallCaptures ==
  <<{},
    {<<"a","d","d">>, <<"C","a","l","c","u","l","a","t","o","r">>, <<"s","u","b">>},
    {},
    {<<"A","p","p","S","e","r","v","i","c","e">>, <<"r","u","n">>},
    {},
    {},
    {},
    {},
    {}>>

\* build() of the variant hands a file to parse_file when its name ends
\* with ".py".
IsPython(f) == EndsWith(Catalog[f].name, <<".","p","y">>)

\* The variant has no except clause: the one fault is a file that cannot
\* be read.
RepoFaults(f) ==
  IF IsPython(f) THEN {NoFault, [kind |-> "read", at |-> 0]} ELSE {NoFault}

\* The loop over captures of parse_file from capture i on; st is the graph
\* and global_definitions.
RECURSIVE RepoCaptureLoop(_, _, _, _)
RepoCaptureLoop(st, file_path, caps, i) ==
  IF i > Len(caps) THEN st
  ELSE
    LET name == caps[i].text
        node_id == get_node_id(file_path, name)
        node_type == IF caps[i].label = "class.name" THEN "class" ELSE "function"
        rel_path == RelPath(file_path)
    IN RepoCaptureLoop(
         [graph |-> AddEdge(AddNode(st.graph, node_id,
                                    [type |-> node_type, name |-> name, file |-> rel_path]),
                            rel_path, node_id, "defines"),
          defs |-> IndexAppend(st.defs, name, node_id)],
         file_path, caps, i + 1)

\* RepoGraphBuilder.parse_file(file_path) on a file that can be read.
RepoParseFile(st, file_path) ==
  LET rel_path == RelPath(file_path)
      f == CHOOSE x \in FilesAt(file_path) : TRUE
  IN RepoCaptureLoop(
       [graph |-> AddNode(st.graph, rel_path, [type |-> "file", path |-> rel_path]),
        defs |-> st.defs],
       file_path, DefCaptures[f], 1)

\* The guard "target_id != file_node_id".
RepoGuard(target_id, file_node_id) == target_id # file_node_id

\* The targets of the add_edge calls of resolve_dependencies for one file.
CallTargets(defs, file_node_id, found_calls) ==
  {t \in UNION {Range(defs[call_name]) : call_name \in found_calls \cap DOMAIN defs} :
     RepoGuard(t, file_node_id)}

RECURSIVE AddCalls(_, _, _)
AddCalls(g, file_node_id, targets) ==
  IF targets = {} THEN g
  ELSE LET t == CHOOSE x \in targets : TRUE
       IN AddCalls(AddEdge(g, file_node_id, t, "calls"), file_node_id, targets \ {t})

\* os.path.exists(file_path)
PathExists(path) == \E f \in FilesAt(path) : f \notin deleted

\* The loop body of resolve_dependencies for one file node.
RepoResolveOne(g, file_node_id) ==
  LET file_path == PathJoin(RepoPath, file_node_id)
      f == CHOOSE x \in FilesAt(file_path) : TRUE
  IN IF ~PathExists(file_path) THEN g
     ELSE AddCalls(g, file_node_id, CallTargets(definitions, file_node_id, CallCaptures[f]))

RepoInit ==
  /\ tree \in {t \in SUBSET Files : Cardinality(t) <= MaxFiles}
  /\ fault \in {ft \in [tree -> UNION {RepoFaults(f) : f \in Files}] :
                  /\ \A f \in tree : ft[f] \in RepoFaults(f)
                  /\ Cardinality({f \in tree : ft[f] # NoFault}) <= MaxFaults}
  /\ deleted = {}
  /\ phase = "scanning"
  /\ run = 1
  /\ visited = {}
  /\ graph = EmptyGraph
  /\ definitions = <<>>
  /\ fileNodes = <<>>
  /\ ri = 1
  /\ atResolve = EmptyGraph
  /\ skipped = {}
  /\ prevGraph = EmptyGraph

\* One file of the walk.  An exception of parse_file leaves build(): the
\* phase "failed".
RepoScanFile(f) ==
  /\ WalkStep(f)
  /\ f \notin deleted
  /\ visited' = visited \cup {f}
  /\ IF ~IsPython(f)
     THEN UNCHANGED <<graph, definitions, phase>>
     ELSE IF ~CanRead(FullPath(f))
     THEN phase' = "failed" /\ UNCHANGED <<graph, definitions>>
     ELSE LET st == RepoParseFile([graph |-> graph, defs |-> definitions], FullPath(f))
          IN graph' = st.graph /\ definitions' = st.defs /\ UNCHANGED phase
  /\ UNCHANGED <<tree, fault, deleted, run, fileNodes, ri, atResolve, skipped, prevGraph>>

\* resolve_dependencies starts: it lists the file nodes.
RepoStartResolve ==
  /\ WalkOver
  /\ phase' = "resolving"
  /\ fileNodes' = FileNodeList(graph)
  /\ ri' = 1
  /\ atResolve' = graph
  /\ skipped' = {}
  /\ UNCHANGED <<tree, fault, deleted, run, visited, graph, definitions, prevGraph>>

\* One iteration of "for file_node_id in file_nodes".
RepoResolveFile ==
  /\ PassStep
  /\ graph' = RepoResolveOne(graph, fileNodes[ri])
  /\ skipped' = IF PathExists(PathJoin(RepoPath, fileNodes[ri]))
                THEN skipped ELSE skipped \cup {fileNodes[ri]}
  /\ ri' = ri + 1
  /\ UNCHANGED <<tree, fault, deleted, phase, run, visited, definitions, fileNodes,
                 atResolve, prevGraph>>

\* build() runs again: on a new builder, or on the same one, whose graph
\* and global_definitions are those of the run before.
RepoRebuild(fresh) ==
  /\ phase = "done"
  /\ run < MaxRuns
  /\ run' = run + 1
  /\ prevGraph' = graph
  /\ graph' = IF fresh THEN EmptyGraph ELSE graph
  /\ definitions' = IF fresh THEN <<>> ELSE definitions
  /\ phase' = "scanning"
  /\ visited' = {}
  /\ fileNodes' = <<>>
  /\ ri' = 1
  /\ atResolve' = EmptyGraph
  /\ skipped' = {}
  /\ UNCHANGED <<tree, fault, deleted>>

RepoNext ==
  \/ \E f \in Files : RepoScanFile(f)
  \/ \E f \in Files : WalkMisses(f)
  \/ RepoStartResolve
  \/ RepoResolveFile
  \/ FinishBuild
  \/ \E fresh \in BOOLEAN : RepoRebuild(fresh)
  \/ \E f \in Files : DeleteFile(f)

RepoSpec == RepoInit /\ [][RepoNext]_vars

\* Idempotence of the variant: a second run on an unchanged tree ends with
\* the nodes and the edges of the first, and no pair of nodes ever has two
\* edges.
RepoIdempotence ==
  /\ \A e \in EdgeSet(graph) :
       Cardinality({x \in EdgeSet(graph) : x[1] = e[1] /\ x[2] = e[2]}) = 1
       /\ CopiesIn(e, graph.edges) = 1
  /\ (phase = "done" /\ run >= 2 /\ deleted = {}) =>
       /\ graph.nodes = prevGraph.nodes
       /\ graph.edges = prevGraph.edges

\* A second run of the variant is done on an unchanged tree, with defines
\* and calls edges in the graph.
RepoIdempotenceWitness ==
  /\ phase = "done"
  /\ run >= 2
  /\ deleted = {}
  /\ \E e \in EdgeSet(graph) : e[3] = "calls"
  /\ \E e \in EdgeSet(graph) : e[3] = "defines"

(***************************************************************************)
(* The end-to-end scenario on the fixture of graph_builder.py.             *)
(***************************************************************************)
MathLibFile == <<"m","a","t","h","_","l","i","b",".","p","y">>
MainFile == <<"m","a","i","n",".","p","y">>
AddDef == <<"m","a","t","h","_","l","i","b",".","p","y",":",":","a","d","d">>
CalculatorDef == <<"m","a","t","h","_","l","i","b",".","p","y",":",":","C","a","l","c","u","l","a","t","o","r">>
SubDef == <<"m","a","t","h","_","l","i","b",".","p","y",":",":","s","u","b">>

\* PolyglotGraphBuilder.build() is done on the tree of math_lib.py and
\* main.py, nothing failed and nothing was deleted.
FixtureBuilt ==
  /\ phase = "done"
  /\ tree = {f \in Files : Catalog[f] \in {MathLibPy, MainPy}}
  /\ deleted = {}
  /\ \A f \in tree : fault[f] = NoFault

\* C11 as stated: on the fixture build() yields 2 file nodes, a contains
\* edge from math_lib.py to each of its definitions, a references edge from
\* main.py to add and to Calculator, and no references edge from
\* math_lib.py to a definition of its own.
EndToEndAsStated ==
  FixtureBuilt =>
    /\ FileNodeIds(graph) = {MathLibFile, MainFile}
    /\ \A D \in {AddDef, CalculatorDef, SubDef} :
         EdgeCount(graph, MathLibFile, D, "contains") = 1
    /\ References(MainFile, AddDef)
    /\ References(MainFile, CalculatorDef)
    /\ \A D \in DefNodeIds(graph) : OwnerPath(D) = MathLibFile => ~References(MathLibFile, D)

\* C11 as amended: on the fixture build() yields 2 file nodes, the
\* definitions add, Calculator and sub of math_lib.py, each with its contains
\* edge, and main of main.py; the one references edge is main.py ->
\* Calculator: add and sub have 3 characters, which the rule
\* "len(def_name) > 3" leaves out, and math_lib.py references none of its own
\* definitions.
EndToEndFixture ==
  FixtureBuilt =>
    /\ FileNodeIds(graph) = {MathLibFile, MainFile}
    /\ {D \in DefNodeIds(graph) : OwnerPath(D) = MathLibFile}
         = {AddDef, CalculatorDef, SubDef}
    /\ \A D \in {AddDef, CalculatorDef, SubDef} :
         EdgeCount(graph, MathLibFile, D, "contains") = 1
    /\ {e \in EdgeSet(graph) : e[3] = "references"}
         = {<<MainFile, CalculatorDef, "references">>}
    /\ ~References(MainFile, AddDef)
    /\ ~References(MainFile, SubDef)

\* build() is done on the fixture and main.py references Calculator.
EndToEndFixtureWitness ==
  /\ FixtureBuilt
  /\ References(MainFile, CalculatorDef)
  /\ AddDef \in DefNodeIds(graph)

(***************************************************************************)
(* Properties of the single-language variant.                              *)
(***************************************************************************)
\* The class and function nodes of RepoGraphBuilder's graph.
CodeNodeIds(g) == {n \in NodeIds(g) : g.nodes[n].type \in {"class", "function"}}

\* C12: once resolve_dependencies has started, and after build(), every
\* class or function node has its "defines" edge from the file node that
\* owns it (no defines edge present when resolution started is removed or
\* relabelled), and no "calls" edge goes from a file to a definition the
\* same file owns, also when the file calls what it defines.
DefinesEdgesSurvive ==
  phase \in {"resolving", "done"} =>
    \A D \in CodeNodeIds(graph) :
      /\ EdgeCount(atResolve, graph.nodes[D].file, D, "defines") = 1
           => EdgeCount(graph, graph.nodes[D].file, D, "defines") = 1
      /\ EdgeCount(graph, graph.nodes[D].file, D, "calls") = 0
      /\ phase = "done" => EdgeCount(graph, OwnerPath(D), D, "defines") = 1

(***************************************************************************)
(* The guard of build_cross_reference, seen from the owner of a node.      *)
(***************************************************************************)
\* An indexed key of definition D (its full name, or its leaf when the name
\* has a dot) has more than 3 characters and occurs in the text.
KeyHit(D, content) ==
  \/ NameHit(DefName(D), content)
  \/ "." \in Range(DefName(D)) /\ NameHit(LeafName(DefName(D)), content)

\* C13: after build(), for a file node F the resolver read and a definition
\* D with a key hit in F's text, the edge F -> D is missing only if F owns
\* D; and the guard takes a definition for the own one of a file node only
\* if that file node owns it, whatever the relative paths.
GuardOnlySelfReferences ==
  /\ phase = "done" =>
       \A F \in FileNodeIds(graph) \ skipped : \A D \in DefNodeIds(graph) :
         (KeyHit(D, TextOfNode(F)) /\ ~References(F, D)) => OwnerPath(D) = F
  /\ \A F \in FileNodeIds(graph) : \A D \in DefNodeIds(graph) :
       IsSelfReference(D, F) => OwnerPath(D) = F

====
